---- MODULE Spec2Model ----
(***************************************************************************)
(* Model of the candle pipeline of the token price oracle:                 *)
(*   CollectorService  (ticks -> Redis in-flight candles),                 *)
(*   StorageService    (flush of Redis candles into ohlcv_1m),             *)
(*   BackfillService   (historical exchange candles into ohlcv_1m).        *)
(* Every Redis command and every SQL statement is one atomic step; a       *)
(* handler may be interleaved with the others at each of its awaits.       *)
(***************************************************************************)
EXTENDS Integers, Sequences, FiniteSets, TLC

(***************************************************************************)
(* Bounds of the model.                                                    *)
(***************************************************************************)
MaxPrice == 3
MaxOps == 4
NumCollectors == 2
NumRuns == 2
MaxHistCandles == 1
MaxObservations == 3
MaxVolume == 2

(***************************************************************************)
(* Program constants.                                                      *)
(***************************************************************************)
MinuteMs == 60000
DayMs == 24 * 60 * 60 * 1000
HalfMinuteMs == MinuteMs \div 2

\* getHistoricalDataRange: the page limit, batchSize, is 1000 candles in the
\* code and BatchSize candles in the model; the times of the direct calls.
BatchSize == 2
MaxMinutes == 5
StartTimes == {0, HalfMinuteMs, MinuteMs}
EndTimes ==
    {k * MinuteMs : k \in 1..MaxMinutes}
        \cup {k * MinuteMs + HalfMinuteMs : k \in 1..MaxMinutes}
LastListed == {MaxMinutes - 2, MaxMinutes + 1}

Bases == {"BTC", "ETH"}
\* SymbolConfig.base is any string: one more entry of SYMBOLS, a base whose
\* name starts with the name of another one.
AddedBases == {"BTCB"}
Quotes == {"USDT", "KRW"}
Exchanges == {"binance", "upbit"}
Prices == 1..MaxPrice
Collectors == 1..NumCollectors
Runs == 1..NumRuns

\* SYMBOLS: each base has a USDT market served by binance and a KRW market
\* served by upbit.
MarketExchanges(base, quote) ==
    IF quote = "USDT" THEN {"binance"} ELSE {"upbit"}

Pair(base, quote) == <<base, "/", quote>>

Max(a, b) == IF a >= b THEN a ELSE b
Min(a, b) == IF a <= b THEN a ELSE b

(***************************************************************************)
(* JavaScript numbers and their string conversions.  A number is a record: *)
(* NaN or a natural.  A string is a sequence of one-character strings;     *)
(* null, undefined and "" are all the empty sequence (every use in the     *)
(* code, !x, x || d, parseFloat(x), parseInt(x), treats them alike).       *)
(***************************************************************************)
Num(v) == [nan |-> FALSE, v |-> v]
NaN == [nan |-> TRUE, v |-> 0]
Null == << >>
NaNString == <<"N", "a", "N">>
Digits == <<"0", "1", "2", "3", "4", "5", "6", "7", "8", "9">>
DigitSet == {Digits[i] : i \in 1..10}
DigitVal(ch) == (CHOOSE i \in 1..10 : Digits[i] = ch) - 1

RECURSIVE NatToString(_)
NatToString(n) ==
    IF n < 10 THEN <<Digits[n + 1]>>
    ELSE Append(NatToString(n \div 10), Digits[(n % 10) + 1])

\* Number.prototype.toString
NumToString(x) == IF x.nan THEN NaNString ELSE NatToString(x.v)

LeadingDigits(s) ==
    LET bad == {i \in 1..Len(s) : s[i] \notin DigitSet}
    IN  IF bad = {} THEN s
        ELSE SubSeq(s, 1, (CHOOSE i \in bad : \A j \in bad : i <= j) - 1)

RECURSIVE DigitsValue(_)
DigitsValue(s) ==
    IF s = << >> THEN 0
    ELSE DigitsValue(SubSeq(s, 1, Len(s) - 1)) * 10 + DigitVal(s[Len(s)])

\* parseFloat / parseInt(x, 10): the value of the leading digits, NaN when
\* there are none.
ParseFloat(s) ==
    IF LeadingDigits(s) = << >> THEN NaN ELSE Num(DigitsValue(LeadingDigits(s)))

ParseInt(s) == ParseFloat(s)

\* Math.max / Math.min: NaN when either argument is NaN.
JsMax(a, b) == IF a.nan \/ b.nan THEN NaN ELSE Num(Max(a.v, b.v))
JsMin(a, b) == IF a.nan \/ b.nan THEN NaN ELSE Num(Min(a.v, b.v))

Falsy(s) == s = Null

(***************************************************************************)
(* Redis: a map from keys to hashes; a hash maps field names to strings.   *)
(***************************************************************************)
AggKey(base, quote) == [kind |-> "aggregated", base |-> base, quote |-> quote]
ExKey(base, quote, exchange) ==
    [kind |-> exchange, base |-> base, quote |-> quote]

EmptyHash == [f \in {} |-> Null]

Field(h, f) == IF f \in DOMAIN h THEN h[f] ELSE Null

HGetAll(r, key) == IF key \in DOMAIN r THEN r[key] ELSE EmptyHash

Exists(r, key) == key \in DOMAIN r

HMGet(r, key, f) == Field(HGetAll(r, key), f)

HSet(r, key, h) ==
    LET old == HGetAll(r, key)
        new == [f \in DOMAIN old \cup DOMAIN h |->
                   IF f \in DOMAIN h THEN h[f] ELSE old[f]]
    IN  [k \in DOMAIN r \cup {key} |-> IF k = key THEN new ELSE r[k]]

Del(r, keys) == [k \in DOMAIN r \ keys |-> r[k]]

\* The text of a key starts with "candle:" followed by the base
\* ("candle:BTC:USDT:aggregated", "candle:BTC/USDT:binance").
BaseText(base) ==
    IF base = "BTC" THEN <<"B", "T", "C">>
    ELSE IF base = "BTCB" THEN <<"B", "T", "C", "B">>
    ELSE <<"E", "T", "H">>

IsPrefix(p, s) == Len(p) <= Len(s) /\ SubSeq(s, 1, Len(p)) = p

\* redis.keys('candle:*:*:aggregated')
KeysAggregated(r) == {k \in DOMAIN r : k.kind = "aggregated"}

\* redis.keys(`candle:${base}*`)
KeysOfBase(r, base) ==
    {k \in DOMAIN r : IsPrefix(BaseText(base), BaseText(k.base))}

(***************************************************************************)
(* AggregationService.                                                     *)
(***************************************************************************)
RECURSIVE SumSeq(_)
SumSeq(s) == IF s = << >> THEN 0 ELSE s[1] + SumSeq(Tail(s))

SortedPrices(prices) == SortSeq(prices, LAMBDA a, b : a < b)

\* The quotient n / d of two numbers as a fraction in lowest terms, d > 0:
\* the division of the code is not an integer division.
RECURSIVE GCD(_, _)
GCD(a, b) == IF b = 0 THEN a ELSE GCD(b, a % b)
Quotient(n, d) ==
    LET g == GCD(n, d)
    IN  IF g = 0 THEN [num |-> 0, den |-> 1]
        ELSE [num |-> n \div g, den |-> d \div g]

\* The numbers of the code are IEEE-754 doubles, with a significand of 53
\* bits; the numbers of the model have a significand of MantissaBits bits.
MantissaBits == 3

RECURSIVE Pow2(_)
Pow2(n) == IF n = 0 THEN 1 ELSE 2 * Pow2(n - 1)

\* The result of an arithmetic operation whose exact value is n / d, n >= 0
\* and d > 0: the representable number nearest to it, the one with the even
\* significand when two are equally near.
RECURSIVE RoundToNearest(_, _)
RoundToNearest(n, d) ==
    IF n = 0 THEN Quotient(0, 1)
    ELSE IF n >= Pow2(MantissaBits) * d
    THEN LET half == RoundToNearest(n, 2 * d)
         IN  Quotient(2 * half.num, half.den)
    ELSE IF n < Pow2(MantissaBits - 1) * d
    THEN LET twice == RoundToNearest(2 * n, d)
         IN  Quotient(twice.num, 2 * twice.den)
    ELSE LET whole == n \div d
             rest == 2 * (n - whole * d)
         IN  Quotient(IF rest > d \/ (rest = d /\ whole % 2 = 1)
                      THEN whole + 1 ELSE whole, 1)

\* A whole number, rounded: a whole number again.
Rounded(n) == RoundToNearest(n, 1).num

\* sum += x over the list s, from 0, each addition rounded.
RECURSIVE Accumulate(_)
Accumulate(s) ==
    IF s = << >> THEN 0
    ELSE Rounded(Accumulate(SubSeq(s, 1, Len(s) - 1)) + s[Len(s)])

\* throw new Error(message)
Throw(message) == [error |-> message]
Threw(result) == "error" \in DOMAIN result

\* A median that takes the middle of the list as it was passed.
CalculateMedianUnsorted(prices) ==
    IF Len(prices) = 0
    THEN Throw("No prices to aggregate")
    ELSE LET mid == Len(prices) \div 2
         IN  IF Len(prices) % 2 = 0
             THEN Quotient(prices[mid] + prices[mid + 1], 2)
             ELSE Quotient(prices[mid + 1], 1)

\* A median that takes a default for an empty list.
CalculateMedianOfNothing(prices) ==
    IF Len(prices) = 0
    THEN Quotient(0, 1)
    ELSE LET sorted == SortedPrices(prices)
             mid == Len(sorted) \div 2
         IN  IF Len(sorted) % 2 = 0
             THEN Quotient(sorted[mid] + sorted[mid + 1], 2)
             ELSE Quotient(sorted[mid + 1], 1)

\* calculateMedian
CalculateMedian(prices) ==
    IF Len(prices) = 0
    THEN Throw("No prices to aggregate")
    ELSE LET sorted == SortedPrices(prices)
             mid == Len(sorted) \div 2
         IN  IF Len(sorted) % 2 = 0
             THEN Quotient(sorted[mid] + sorted[mid + 1], 2)
             ELSE Quotient(sorted[mid + 1], 1)

\* A weighted average without the fallback: zero for a zero total volume.
CalculateVWAPNoFallback(priceData) ==
    LET totalVolume == SumSeq([i \in 1..Len(priceData) |-> priceData[i].volume])
        weightedSum == SumSeq([i \in 1..Len(priceData) |->
                                  priceData[i].price * priceData[i].volume])
    IN  IF totalVolume = 0
        THEN Quotient(0, 1)
        ELSE Quotient(weightedSum, totalVolume)

\* calculateVWAP
CalculateVWAP(priceData) ==
    LET totalVolume == Accumulate([i \in 1..Len(priceData) |-> priceData[i].volume])
        weightedSum == Accumulate([i \in 1..Len(priceData) |->
                           Rounded(priceData[i].price * priceData[i].volume)])
    IN  IF totalVolume = 0
        THEN CalculateMedian([i \in 1..Len(priceData) |-> priceData[i].price])
        ELSE RoundToNearest(weightedSum, totalVolume)

\* An aggregate that names its algorithm after the number of observations.
AggregateByCount(priceData) ==
    IF Len(priceData) = 0
    THEN Throw("No price data to aggregate")
    ELSE LET hasVolume == \E i \in 1..Len(priceData) : priceData[i].volume > 0
         IN  [price |-> IF hasVolume
                        THEN CalculateVWAP(priceData)
                        ELSE CalculateMedian([i \in 1..Len(priceData) |->
                                                 priceData[i].price]),
              volume |-> SumSeq([i \in 1..Len(priceData) |-> priceData[i].volume]),
              sourceCount |-> Len(priceData),
              algorithm |-> IF Len(priceData) > 1 THEN "vwap" ELSE "median"]

\* aggregate
Aggregate(priceData) ==
    IF Len(priceData) = 0
    THEN Throw("No price data to aggregate")
    ELSE LET hasVolume == \E i \in 1..Len(priceData) : priceData[i].volume > 0
         IN  [price |-> IF hasVolume
                        THEN CalculateVWAP(priceData)
                        ELSE CalculateMedian([i \in 1..Len(priceData) |->
                                                 priceData[i].price]),
              volume |-> SumSeq([i \in 1..Len(priceData) |-> priceData[i].volume]),
              sourceCount |-> Len(priceData),
              algorithm |-> IF hasVolume THEN "vwap" ELSE "median"]

\* The whole number a quotient is when its division is exact, as it is for
\* every price and volume the exchanges of the collector supply.
Whole(q) == q.num \div q.den

(***************************************************************************)
(* State.                                                                  *)
(***************************************************************************)
VARIABLES
    redis,          \* the fast tier
    db,             \* ohlcv_1m: (time, symbol) -> row
    isBackfilling,  \* StorageService.isBackfilling
    now,            \* Date.now()
    col,            \* the running collectPrices cycles
    flush,          \* the running flushToDatabase cycle
    bf,             \* the backfill runs
    hist,           \* the exchanges' historical candles
    opsLeft,        \* how many more handler invocations and clock steps
                    \* the behaviour may hold
    env,            \* what the environment may supply: markets ticked, prices,
                    \* historical candles, backfill requests
    obs,            \* observations of the history, read by the properties only
    call            \* a direct call of the AggregationService: its arguments
                    \* and what it returned or threw

vars == <<redis, db, isBackfilling, now, col, flush, bf, hist,
          opsLeft, env, obs, call>>

Symbol(base, quote) == <<base, ":", quote>>
RowKey(time, base, quote) == [time |-> time, base |-> base, quote |-> quote]

IdleCollector ==
    [pc |-> "idle", base |-> "BTC", quote |-> "USDT", price |-> 0,
     sources |-> 0, high |-> Null, low |-> Null]

(***************************************************************************)
(* CollectorService.                                                       *)
(***************************************************************************)
\* The hash written when the candle does not exist.
NewCandleFields(price, sourceCount, t) ==
    [o |-> NumToString(Num(price)), h |-> NumToString(Num(price)),
     l |-> NumToString(Num(price)), c |-> NumToString(Num(price)),
     t |-> NumToString(Num(t)), sources |-> NumToString(Num(sourceCount))]

\* An update that takes the tick's price for the high instead of the maximum.
UpdateCandleFieldsLastHigh(high, low, price, sourceCount) ==
    [h |-> NumToString(Num(price)),
     l |-> NumToString(JsMin(ParseFloat(low), Num(price))),
     c |-> NumToString(Num(price)),
     sources |-> NumToString(Num(sourceCount))]

\* The hash written when the candle exists; high and low are the strings
\* HMGET returned.
UpdateCandleFields(high, low, price, sourceCount) ==
    [h |-> NumToString(JsMax(ParseFloat(high), Num(price))),
     l |-> NumToString(JsMin(ParseFloat(low), Num(price))),
     c |-> NumToString(Num(price)),
     sources |-> NumToString(Num(sourceCount))]

NewExchangeFields(price, volume, t) ==
    [o |-> NumToString(Num(price)), h |-> NumToString(Num(price)),
     l |-> NumToString(Num(price)), c |-> NumToString(Num(price)),
     v |-> NumToString(Num(volume)), t |-> NumToString(Num(t))]

UpdateExchangeFields(high, low, price, volume) ==
    [h |-> NumToString(JsMax(ParseFloat(high), Num(price))),
     l |-> NumToString(JsMin(ParseFloat(low), Num(price))),
     c |-> NumToString(Num(price)),
     v |-> NumToString(Num(volume))]

\* updateExchangeRedis
UpdateExchangeRedis(r, base, quote, exchange, price, volume, t) ==
    LET key == ExKey(base, quote, exchange)
    IN  IF ~Exists(r, key)
        THEN HSet(r, key, NewExchangeFields(price, volume, t))
        ELSE HSet(r, key, UpdateExchangeFields(HMGet(r, key, "h"),
                                               HMGet(r, key, "l"),
                                               price, volume))

NoPrice == [ok |-> FALSE, price |-> 0, volume |-> 0]
FetchResults ==
    {NoPrice} \cup
    {[ok |-> TRUE, price |-> p, volume |-> v] :
        p \in env.prices, v \in env.volumes}

ExchangeOrder == <<"binance", "upbit">>

\* marketConfig.exchanges, in configuration order.
MarketExchangeList(base, quote) ==
    SelectSeq(ExchangeOrder, LAMBDA e : e \in env.marketConfig[quote])

\* The side-channel writes of the exchanges whose fetch returned a price and
\* whose write did not throw.
RECURSIVE StoreExchangePrices(_, _, _, _, _, _, _)
StoreExchangePrices(r, base, quote, exs, fetched, writeOk, t) ==
    IF exs = << >> THEN r
    ELSE LET e == Head(exs)
             r1 == IF fetched[e].ok /\ writeOk[e]
                   THEN UpdateExchangeRedis(r, base, quote, e,
                                            fetched[e].price, fetched[e].volume, t)
                   ELSE r
         IN  StoreExchangePrices(r1, base, quote, Tail(exs), fetched, writeOk, t)

\* A filter that puts a made-up observation in the place of an empty result.
ValidDataNeverEmpty(exs, fetched, writeOk) ==
    LET kept == SelectSeq(exs, LAMBDA e : fetched[e].ok /\ writeOk[e])
    IN  IF kept = << >>
        THEN <<[price |-> 1, volume |-> 0]>>
        ELSE [i \in 1..Len(kept) |->
                 [price |-> fetched[kept[i]].price,
                  volume |-> fetched[kept[i]].volume]]

\* A filter that keeps the exchanges that returned no price.
ValidDataKeepsNull(exs, fetched, writeOk) ==
    [i \in 1..Len(exs) |->
        [price |-> fetched[exs[i]].price, volume |-> fetched[exs[i]].volume]]

\* results.filter((d) => d !== null): an exchange whose fetch returned null, or
\* whose side-channel write threw (the catch returns null), is left out.
ValidData(exs, fetched, writeOk) ==
    LET kept == SelectSeq(exs, LAMBDA e : fetched[e].ok /\ writeOk[e])
    IN  [i \in 1..Len(kept) |->
            [price |-> fetched[kept[i]].price, volume |-> fetched[kept[i]].volume]]

Market(base, quote) == <<base, quote>>
Markets == (Bases \cup AddedBases) \X Quotes

NoMidTick == [set |-> FALSE, base |-> "BTC", quote |-> "USDT", price |-> 0]

\* What a tick in progress got from the exchanges: the observations returned,
\* in configuration order, and the exchanges whose side-channel write threw.
NoFetch == [set |-> FALSE, returned |-> << >>, dropped |-> {}]

Returned(exs, fetched) ==
    LET got == SelectSeq(exs, LAMBDA e : fetched[e].ok)
    IN  [i \in 1..Len(got) |->
            [exchange |-> got[i], price |-> fetched[got[i]].price,
             volume |-> fetched[got[i]].volume]]

Dropped(exs, fetched, writeOk) ==
    {exs[i] : i \in {j \in 1..Len(exs) : fetched[exs[j]].ok /\ ~writeOk[exs[j]]}}

\* A tick of market m is in flight in collector record cr.
InFlight(cr, m) == cr.pc # "idle" /\ Market(cr.base, cr.quote) = m

\* The flush has read the snapshot of key and has not yet cleared it.
FlushHolds(key) == flush.pc \in {"upsert", "keys", "del"} /\ flush.key = key

\* Observations made when a tick's HSET is applied to market (base, quote).
ObserveTick(c, base, quote, price) ==
    LET m == Market(base, quote)
    IN  [obs EXCEPT
            !.applied[m] = Append(@, price),
            !.ticks[m] = IF env.history THEN Append(@, price) ELSE @,
            !.fetch[c] = NoFetch,
            !.midTick = IF FlushHolds(AggKey(base, quote))
                        THEN [set |-> TRUE, base |-> base, quote |-> quote,
                              price |-> price]
                        ELSE @]

\* collectMarket up to the call of updateQuoteAggregatedRedis.
CollectMarket(c, base, quote) ==
    /\ col[c].pc = "idle"
    /\ opsLeft > 0
    /\ \E fetched \in [env.marketConfig[quote] -> FetchResults],
          writeOk \in [env.marketConfig[quote] -> BOOLEAN] :
          LET exs == MarketExchangeList(base, quote)
              validData == ValidData(exs, fetched, writeOk)
              aggregated == Aggregate(validData)
              m == Market(base, quote)
          IN  /\ redis' = StoreExchangePrices(redis, base, quote, exs,
                                              fetched, writeOk, now)
              /\ IF validData = << >>
                 THEN /\ col' = col
                      /\ obs' = [obs EXCEPT !.fetch[c] =
                                    [set |-> TRUE,
                                     returned |-> Returned(exs, fetched),
                                     dropped |-> Dropped(exs, fetched, writeOk)]]
                 ELSE /\ col' = [col EXCEPT ![c] =
                            [pc |-> "exists", base |-> base, quote |-> quote,
                             price |-> Whole(aggregated.price),
                             sources |-> aggregated.sourceCount,
                             high |-> Null, low |-> Null]]
                      /\ obs' = [obs EXCEPT
                                    !.observed[m] =
                                        Append(@, Whole(aggregated.price)),
                                    !.clean[m] =
                                        @ /\ ~\E d \in Collectors : InFlight(col[d], m),
                                    !.fetch[c] =
                                        [set |-> TRUE,
                                         returned |-> Returned(exs, fetched),
                                         dropped |-> Dropped(exs, fetched, writeOk)]]
    /\ opsLeft' = opsLeft - 1
    /\ UNCHANGED <<db, isBackfilling, now, flush, bf, hist, env, call>>

\* updateQuoteAggregatedRedis: redis.exists(key)
CollectExists(c) ==
    /\ col[c].pc = "exists"
    /\ col' = [col EXCEPT ![c].pc =
                  IF Exists(redis, AggKey(col[c].base, col[c].quote))
                  THEN "hmget" ELSE "create"]
    /\ UNCHANGED <<redis, db, isBackfilling, now, flush, bf, hist,
                   opsLeft, env, call, obs>>

\* updateQuoteAggregatedRedis: the HSET that creates the candle
CollectCreate(c) ==
    /\ col[c].pc = "create"
    /\ redis' = HSet(redis, AggKey(col[c].base, col[c].quote),
                     NewCandleFields(col[c].price, col[c].sources, now))
    /\ col' = [col EXCEPT ![c] = IdleCollector]
    /\ obs' = [ObserveTick(c, col[c].base, col[c].quote, col[c].price) EXCEPT
                  !.created[Market(col[c].base, col[c].quote)] = now]
    /\ UNCHANGED <<db, isBackfilling, now, flush, bf, hist,
                   opsLeft, env, call>>

\* updateQuoteAggregatedRedis: redis.hmget(key, 'h', 'l')
CollectHmget(c) ==
    /\ col[c].pc = "hmget"
    /\ col' = [col EXCEPT
                  ![c].pc = "update",
                  ![c].high = HMGet(redis, AggKey(col[c].base, col[c].quote), "h"),
                  ![c].low = HMGet(redis, AggKey(col[c].base, col[c].quote), "l")]
    /\ UNCHANGED <<redis, db, isBackfilling, now, flush, bf, hist,
                   opsLeft, env, call, obs>>

\* updateQuoteAggregatedRedis: the HSET that updates the candle
CollectUpdate(c) ==
    /\ col[c].pc = "update"
    /\ redis' = HSet(redis, AggKey(col[c].base, col[c].quote),
                     UpdateCandleFields(col[c].high, col[c].low,
                                        col[c].price, col[c].sources))
    /\ col' = [col EXCEPT ![c] = IdleCollector]
    /\ obs' = ObserveTick(c, col[c].base, col[c].quote, col[c].price)
    /\ UNCHANGED <<db, isBackfilling, now, flush, bf, hist,
                   opsLeft, env, call>>

\* Time passes.
Advance ==
    /\ opsLeft > 0
    /\ now' = now + HalfMinuteMs
    /\ opsLeft' = opsLeft - 1
    /\ UNCHANGED <<redis, db, isBackfilling, col, flush, bf, hist, env, call, obs>>

(***************************************************************************)
(* StorageService.                                                         *)
(***************************************************************************)
IdleFlush ==
    [pc |-> "idle", keys |-> {}, key |-> AggKey("BTC", "USDT"),
     data |-> EmptyHash, time |-> Num(0), allKeys |-> {},
     flushedCount |-> 0, skippedCount |-> 0]

\* bucketTime.setSeconds(0, 0); roundToMinute
TruncMinute(ts) == (ts \div MinuteMs) * MinuteMs

\* A check of the snapshot that looks at the close only.
ValidSnapshotCloseOnly(data) ==
    /\ ~Falsy(Field(data, "c"))
    /\ ~ParseFloat(Field(data, "c")).nan

\* flushCandle steps 1 to 5: the snapshot is one the flush goes on to upsert.
ValidSnapshot(data) ==
    /\ ~Falsy(Field(data, "o"))
    /\ ~Falsy(Field(data, "c"))
    /\ ~ParseFloat(Field(data, "o")).nan
    /\ ~ParseFloat(Field(data, "h")).nan
    /\ ~ParseFloat(Field(data, "l")).nan
    /\ ~ParseFloat(Field(data, "c")).nan

\* A bucket time taken from the clock of the flush, whatever the candle says.
BucketTimeOfFlush(data, t) == Num(TruncMinute(t))

\* flushCandle step 3: the timestamp of the candle when it has one, the
\* current time otherwise.
BucketTime(data, t) ==
    IF ~Falsy(Field(data, "t"))
    THEN LET ts == ParseInt(Field(data, "t"))
         IN  IF ts.nan THEN NaN ELSE Num(TruncMinute(ts.v))
    ELSE Num(TruncMinute(t))

\* flushCandle step 4
SourceCount(data) ==
    ParseInt(IF Falsy(Field(data, "sources")) THEN <<"1">> ELSE Field(data, "sources"))

\* The values of the INSERT of flushCandle.
LiveRow(data) ==
    [open |-> ParseFloat(Field(data, "o")).v,
     high |-> ParseFloat(Field(data, "h")).v,
     low |-> ParseFloat(Field(data, "l")).v,
     close |-> ParseFloat(Field(data, "c")).v,
     volume |-> 0,
     quoteVolume |-> 0,
     sourceCount |-> SourceCount(data).v]

\* A conflict clause of the flush that overwrites the high: no GREATEST.
LiveConflictSetOverwriteHigh(existing, excluded) ==
    [existing EXCEPT
        !.close = excluded.close,
        !.high = excluded.high,
        !.low = Min(existing.low, excluded.low),
        !.sourceCount = excluded.sourceCount]

\* A conflict clause of the flush that overwrites the low: no LEAST.
LiveConflictSetOverwriteLow(existing, excluded) ==
    [existing EXCEPT
        !.close = excluded.close,
        !.high = Max(existing.high, excluded.high),
        !.low = excluded.low,
        !.sourceCount = excluded.sourceCount]

\* ON CONFLICT (time, symbol) DO UPDATE SET of flushCandle.
LiveConflictSet(existing, excluded) ==
    [existing EXCEPT
        !.close = excluded.close,
        !.high = Max(existing.high, excluded.high),
        !.low = Min(existing.low, excluded.low),
        !.sourceCount = excluded.sourceCount]

\* A conflict clause of the backfill that also takes the incoming open.
BackfillConflictSetWithOpen(existing, excluded) ==
    [existing EXCEPT
        !.open = excluded.open,
        !.close = excluded.close,
        !.high = Max(existing.high, excluded.high),
        !.low = Min(existing.low, excluded.low),
        !.volume = excluded.volume,
        !.quoteVolume = excluded.quoteVolume]

\* A conflict clause of the backfill that overwrites the low: no LEAST.
BackfillConflictSetOverwriteLow(existing, excluded) ==
    [existing EXCEPT
        !.close = excluded.close,
        !.high = Max(existing.high, excluded.high),
        !.low = excluded.low,
        !.volume = excluded.volume,
        !.quoteVolume = excluded.quoteVolume]

\* A conflict clause of the backfill that adds the incoming volume to the
\* stored one.
BackfillConflictSetAddVolume(existing, excluded) ==
    [existing EXCEPT
        !.close = excluded.close,
        !.high = Max(existing.high, excluded.high),
        !.low = Min(existing.low, excluded.low),
        !.volume = existing.volume + excluded.volume,
        !.quoteVolume = existing.quoteVolume + excluded.quoteVolume]

\* ON CONFLICT (time, symbol) DO UPDATE SET of aggregateAndStore.
BackfillConflictSet(existing, excluded) ==
    [existing EXCEPT
        !.close = excluded.close,
        !.high = Max(existing.high, excluded.high),
        !.low = Min(existing.low, excluded.low),
        !.volume = excluded.volume,
        !.quoteVolume = excluded.quoteVolume]

\* INSERT ... ON CONFLICT DO UPDATE of one row by the flush.
LiveUpsert(d, k, row) ==
    [x \in DOMAIN d \cup {k} |->
        IF x = k
        THEN IF k \in DOMAIN d THEN LiveConflictSet(d[k], row) ELSE row
        ELSE d[x]]

\* A cycle that starts whatever the suppression flag says.
FlushStartIgnoringFlag ==
    /\ flush.pc = "idle"
    /\ opsLeft > 0 \/ env.flushForever
    /\ opsLeft' = IF env.flushForever THEN opsLeft ELSE opsLeft - 1
    /\ IF KeysAggregated(redis) = {}
       THEN flush' = flush
       ELSE flush' = [IdleFlush EXCEPT !.pc = "loop", !.keys = KeysAggregated(redis)]
    /\ obs' = [obs EXCEPT !.failed = {}, !.confirmed = {},
                          !.midTick = NoMidTick,
                          !.invalid = {},
                          !.enumValid =
                              IF isBackfilling THEN {}
                              ELSE {k \in KeysAggregated(redis) :
                                       ValidSnapshot(HGetAll(redis, k))},
                          !.suppressed =
                              IF env.history /\ isBackfilling
                              THEN KeysAggregated(redis) ELSE @]
    /\ UNCHANGED <<redis, db, isBackfilling, now, col, bf, hist, env, call>>

\* @Cron('*/30 * * * * *') flushToDatabase: the isBackfilling test and
\* redis.keys('candle:*:*:aggregated').
FlushStart ==
    /\ flush.pc = "idle"
    /\ opsLeft > 0 \/ env.flushForever
    /\ opsLeft' = IF env.flushForever THEN opsLeft ELSE opsLeft - 1
    /\ IF isBackfilling \/ KeysAggregated(redis) = {}
       THEN flush' = flush
       ELSE flush' = [IdleFlush EXCEPT !.pc = "loop", !.keys = KeysAggregated(redis)]
    /\ obs' = [obs EXCEPT !.failed = {}, !.confirmed = {},
                          !.midTick = NoMidTick,
                          !.invalid = {},
                          !.enumValid =
                              IF isBackfilling THEN {}
                              ELSE {k \in KeysAggregated(redis) :
                                       ValidSnapshot(HGetAll(redis, k))},
                          !.suppressed =
                              IF env.history /\ isBackfilling
                              THEN KeysAggregated(redis) ELSE @]
    /\ UNCHANGED <<redis, db, isBackfilling, now, col, bf, hist, env, call>>

\* flushCandle(key) up to the upsert: redis.hgetall(key) and the checks of the
\* snapshot.  KEYS returns the keys in no particular order.
FlushRead(key) ==
    /\ flush.pc = "loop"
    /\ key \in flush.keys
    /\ LET data == HGetAll(redis, key)
       IN  IF ValidSnapshot(data)
           THEN flush' = [flush EXCEPT !.pc = "upsert", !.key = key,
                                       !.keys = @ \ {key}, !.data = data,
                                       !.time = BucketTime(data, now)]
           ELSE flush' = [flush EXCEPT !.keys = @ \ {key},
                                       !.skippedCount = @ + 1]
    /\ obs' = IF ValidSnapshot(HGetAll(redis, key)) THEN obs
              ELSE [obs EXCEPT !.invalid = @ \cup {key}]
    /\ UNCHANGED <<redis, db, isBackfilling, now, col, bf, hist,
                   opsLeft, env, call>>

\* The store rejects a row whose time or source count is not a number.
Insertable(f) == ~f.time.nan /\ ~SourceCount(f.data).nan

\* flushCandle step 6, the upsert is confirmed.
FlushUpsertOk ==
    /\ flush.pc = "upsert"
    /\ Insertable(flush)
    /\ LET k == RowKey(flush.time.v, flush.key.base, flush.key.quote)
       IN  /\ db' = LiveUpsert(db, k, LiveRow(flush.data))
           /\ obs' = [obs EXCEPT
                         !.confirmed = @ \cup {flush.key},
                         !.flushes[Market(flush.key.base, flush.key.quote)] =
                             IF env.history THEN @ + 1 ELSE @,
                         !.hits = IF k \in DOMAIN db THEN @ \cup {"live"} ELSE @,
                         !.lastHit = IF k \in DOMAIN db
                                     THEN [src |-> "live", old |-> db[k],
                                           inc |-> LiveRow(flush.data)]
                                     ELSE @,
                         !.undisturbed = {}]
    /\ flush' = [flush EXCEPT !.pc = "keys"]
    /\ bf' = [r \in Runs |-> [bf[r] EXCEPT !.alone = FALSE]]
    /\ UNCHANGED <<redis, isBackfilling, now, col, hist,
                   opsLeft, env, call>>

\* flushCandle step 6, the upsert throws: the catch returns false.
FlushUpsertFail ==
    /\ flush.pc = "upsert"
    /\ flush' = [flush EXCEPT !.pc = "loop", !.skippedCount = @ + 1]
    /\ obs' = [obs EXCEPT !.failed = @ \cup {flush.key}]
    /\ UNCHANGED <<redis, db, isBackfilling, now, col, bf, hist,
                   opsLeft, env, call>>

\* flushCandle step 7: redis.keys(`candle:${base}*`)
FlushKeys ==
    /\ flush.pc = "keys"
    /\ flush' = [flush EXCEPT !.pc = "del",
                              !.allKeys = KeysOfBase(redis, flush.key.base)]
    /\ UNCHANGED <<redis, db, isBackfilling, now, col, bf, hist,
                   opsLeft, env, call, obs>>

\* The markets whose aggregated candle is among keys.
MarketsOf(keys) ==
    {Market(k.base, k.quote) : k \in {x \in keys : x.kind = "aggregated"}}

\* flushCandle step 7: redis.del(...allKeys)
FlushDel ==
    /\ flush.pc = "del"
    /\ redis' = Del(redis, flush.allKeys)
    /\ flush' = [flush EXCEPT !.pc = "loop", !.allKeys = {},
                              !.data = EmptyHash, !.time = Num(0),
                              !.flushedCount = @ + 1]
    /\ obs' = [obs EXCEPT
                  !.applied = [m \in Markets |->
                      IF m \in MarketsOf(flush.allKeys \cap DOMAIN redis)
                      THEN << >> ELSE @[m]],
                  !.clean = [m \in Markets |->
                      IF m \in MarketsOf(flush.allKeys \cap DOMAIN redis)
                      THEN ~\E d \in Collectors : InFlight(col[d], m)
                      ELSE @[m]],
                  !.created = [m \in Markets |->
                      IF m \in MarketsOf(flush.allKeys \cap DOMAIN redis)
                      THEN 0 ELSE @[m]],
                  !.observed = [m \in Markets |->
                      IF m \in MarketsOf(flush.allKeys \cap DOMAIN redis)
                      THEN << >> ELSE @[m]]]
    /\ UNCHANGED <<db, isBackfilling, now, col, bf, hist,
                   opsLeft, env, call>>

\* flushToDatabase: the loop over the keys has ended.
FlushEnd ==
    /\ flush.pc = "loop"
    /\ flush.keys = {}
    /\ flush' = IdleFlush
    /\ obs' = [obs EXCEPT !.failed = {}, !.confirmed = {},
                          !.invalid = {}, !.enumValid = {}]
    /\ UNCHANGED <<redis, db, isBackfilling, now, col, bf, hist,
                   opsLeft, env, call>>

(***************************************************************************)
(* BackfillService.                                                        *)
(***************************************************************************)
\* What the caller of backfill has received: nothing yet, the progress
\* report that backfill returns, or the error that backfill rethrows.
NoOutcome == [kind |-> "none", status |-> "none", processed |-> 0, total |-> 0]
Report(run) ==
    [kind |-> "report", status |-> run.status, processed |-> run.processed,
     total |-> run.total]
Thrown == [kind |-> "error", status |-> "none", processed |-> 0, total |-> 0]

IdleRun ==
    [pc |-> "idle", base |-> "BTC", start |-> 0, end |-> 0, exchanges |-> {},
     cur |-> 0, data |-> << >>, processed |-> 0, total |-> 0,
     status |-> "none", alone |-> FALSE, windows |-> << >>,
     delivered |-> NoOutcome]

Args(run) ==
    [base |-> run.base, start |-> run.start, end |-> run.end,
     exchanges |-> run.exchanges]

\* Ranges a backfill may be asked for: within one day from midnight, and
\* across midnight from the second minute of a day.
ShortRange == [start |-> 0, end |-> 2 * MinuteMs]
LongRange == [start |-> MinuteMs, end |-> DayMs + MinuteMs]
\* Across midnight in less than a day, from the middle of the last minute
\* of a day; and from midnight into the first minute of the next day.
NightRange == [start |-> DayMs - HalfMinuteMs, end |-> DayMs + MinuteMs]
TwoDayRange == [start |-> 0, end |-> DayMs + MinuteMs]

\* The 1-minute candles an exchange may hold for the day that starts at day:
\* open times at or just after a minute boundary, low <= open, close <= high.
HistCandles(day, prices) ==
    {[time |-> t, open |-> o, high |-> h, low |-> l, close |-> c,
      volume |-> v, quoteVolume |-> v * c] :
        t \in {day + 1, day + MinuteMs}, o \in prices, h \in prices,
        l \in prices, c \in prices, v \in env.volumes}

HistSeries(day, prices) ==
    {s \in UNION {[1..n -> HistCandles(day, prices)] : n \in 0..MaxHistCandles} :
        /\ \A i \in 1..Len(s) : /\ s[i].low <= s[i].open
                                /\ s[i].low <= s[i].close
                                /\ s[i].open <= s[i].high
                                /\ s[i].close <= s[i].high
        /\ \A i \in 1..(Len(s) - 1) : s[i].time <= s[i + 1].time}

HistKey(base, exchange, day) == [base |-> base, exchange |-> exchange, day |-> day]

\* setHours(0, 0, 0, 0) and setHours(23, 59, 59, 999), in UTC.
DayStart(ts) == (ts \div DayMs) * DayMs
DayEnd(ts, end) == Min(DayStart(ts) + DayMs - 1, end)

\* getHistoricalDataRange(pair, dayStartTime, dayEndTime) on an exchange that
\* holds series for the day.
InRange(series, from, to) ==
    SelectSeq(series, LAMBDA cd : from <= cd.time /\ cd.time <= to)

\* roundToMinute
RoundToMinute(timestamp) == (timestamp \div MinuteMs) * MinuteMs

QuoteOf(exchange) == IF exchange = "binance" THEN "USDT" ELSE "KRW"

\* timeMap.get(bucketTime).get(exchange): the last candle of the exchange
\* that rounds to the bucket.
BucketCandle(series, bucket) ==
    LET idx == {i \in 1..Len(series) : RoundToMinute(series[i].time) = bucket}
    IN  series[CHOOSE i \in idx : \A j \in idx : j <= i]

\* The candles of exchangeData, by exchange and position.
CandleIndex(data) ==
    UNION {{<<e, i>> : i \in 1..Len(data[e])} : e \in DOMAIN data}

\* Array.from(timeMap.keys())
Buckets(data) ==
    {RoundToMinute(data[x[1]][x[2]].time) : x \in CandleIndex(data)}

\* One element of values: the row of an exchange candle.
BackfillRow(cd) ==
    [open |-> cd.open, high |-> cd.high, low |-> cd.low, close |-> cd.close,
     volume |-> cd.volume, quoteVolume |-> cd.quoteVolume, sourceCount |-> 1]

\* Rows that put the candles of every exchange under the USDT market.
BackfillValuesOneMarket(base, data) ==
    LET keys == {RowKey(RoundToMinute(data[x[1]][x[2]].time), base, "USDT") :
                    x \in CandleIndex(data)}
        From(k) == CHOOSE e \in DOMAIN data :
                      /\ \E i \in 1..Len(data[e]) :
                            RoundToMinute(data[e][i].time) = k.time
                      /\ (e = "upbit" =>
                            ~\E i \in 1..Len(data["binance"]) :
                                RoundToMinute(data["binance"][i].time) = k.time)
    IN  [k \in keys |-> BackfillRow(BucketCandle(data[From(k)], k.time))]

\* values: the rows of one batch, by (time, symbol).
BackfillValues(base, data) ==
    LET keys == {RowKey(RoundToMinute(data[x[1]][x[2]].time), base, QuoteOf(x[1])) :
                    x \in CandleIndex(data)}
        ExchangeOfQuote(q) == IF q = "USDT" THEN "binance" ELSE "upbit"
    IN  [k \in keys |-> BackfillRow(BucketCandle(data[ExchangeOfQuote(k.quote)], k.time))]

\* INSERT ... VALUES values ON CONFLICT DO UPDATE of aggregateAndStore.
BackfillUpsert(d, values) ==
    [x \in DOMAIN d \cup DOMAIN values |->
        IF x \in DOMAIN values
        THEN IF x \in DOMAIN d THEN BackfillConflictSet(d[x], values[x]) ELSE values[x]
        ELSE d[x]]

\* A flag that stays raised whatever it is set to.
SetBackfillingStuck(status) == TRUE

\* setBackfilling(status): the value the flag takes.
SetBackfilling(status) == status

\* A total that counts a started minute as a whole one.
TotalCandlesCeil(start, end) == (end - start + MinuteMs - 1) \div MinuteMs

\* totalMinutes = Math.floor((endTime - startTime) / (60 * 1000))
TotalCandles(start, end) == (end - start) \div MinuteMs

\* backfill(options) up to the loop over the days.
BackfillStart(r, base, range, exchanges) ==
    /\ bf[r].pc = "idle"
    /\ \A q \in Runs : q < r => bf[q].pc # "idle"
    /\ bf' = [bf EXCEPT ![r] =
                 [IdleRun EXCEPT !.pc = "window", !.base = base,
                                 !.start = range.start, !.end = range.end,
                                 !.exchanges = exchanges, !.cur = range.start,
                                 !.total = TotalCandles(range.start, range.end),
                                 !.status = "running", !.alone = TRUE]]
    /\ isBackfilling' = SetBackfilling(TRUE)
    /\ opsLeft > 0
    /\ opsLeft' = opsLeft - 1
    /\ UNCHANGED <<redis, db, now, col, flush, hist, env, call, obs>>

\* One day of the loop: the fetches of the requested exchanges.
BackfillFetch(r) ==
    /\ bf[r].pc = "window"
    /\ bf[r].cur < bf[r].end
    /\ LET day == DayStart(bf[r].cur)
           to == DayEnd(bf[r].cur, bf[r].end)
           wanted == {HistKey(bf[r].base, e, day) : e \in bf[r].exchanges \cap Exchanges}
           Held(e) == LET k == HistKey(bf[r].base, e, day)
                      IN  IF k \notin wanted THEN {<< >>}
                          ELSE IF k \in DOMAIN hist THEN {hist[k]}
                          ELSE HistSeries(day, env.histPrices[e])
       IN  \E hb \in Held("binance"), hu \in Held("upbit") :
            LET h == [k \in wanted |-> IF k.exchange = "binance" THEN hb ELSE hu]
            IN
              /\ hist' = [k \in DOMAIN hist \cup wanted |->
                             IF k \in wanted THEN h[k] ELSE hist[k]]
              /\ bf' = [bf EXCEPT
                           ![r].pc = "store",
                           ![r].windows = Append(@, [from |-> day, to |-> to]),
                           ![r].data = [e \in bf[r].exchanges \cap Exchanges |->
                               InRange(h[HistKey(bf[r].base, e, day)], day, to)]]
    /\ UNCHANGED <<redis, db, isBackfilling, now, col, flush,
                   opsLeft, env, call, obs>>

\* The run ends in the catch and the finally of backfill.
Failed(run) ==
    [run EXCEPT !.pc = "done", !.status = "failed", !.data = << >>,
                !.delivered = Thrown]

\* A fetch throws.
BackfillFetchFail(r) ==
    /\ bf[r].pc = "window"
    /\ bf[r].cur < bf[r].end
    /\ "upbit" \in bf[r].exchanges
    /\ bf' = [bf EXCEPT ![r] =
                 Failed([@ EXCEPT !.windows =
                     Append(@, [from |-> DayStart(bf[r].cur),
                                to |-> DayEnd(bf[r].cur, bf[r].end)])])]
    /\ isBackfilling' = SetBackfilling(FALSE)
    /\ UNCHANGED <<redis, db, now, col, flush, hist,
                   opsLeft, env, call, obs>>

\* aggregateAndStore for one day, the batch upsert is confirmed.
BackfillStore(r) ==
    /\ bf[r].pc = "store"
    /\ LET values == BackfillValues(bf[r].base, bf[r].data)
       IN  /\ db' = BackfillUpsert(db, values)
           /\ obs' = [obs EXCEPT
                         !.hits = IF DOMAIN values \cap DOMAIN db # {}
                                  THEN @ \cup {"backfill"} ELSE @,
                         !.lastHit =
                             IF DOMAIN values \cap DOMAIN db # {}
                             THEN LET k == CHOOSE x \in DOMAIN values \cap DOMAIN db : TRUE
                                  IN  [src |-> "backfill", old |-> db[k],
                                       inc |-> values[k]]
                             ELSE @,
                         !.undisturbed = @ \cap {Args(bf[r])},
                         !.repeated = @ \/ (Args(bf[r]) \in obs.undisturbed
                                            /\ DOMAIN values # {})]
    /\ bf' = [q \in Runs |->
                 IF q = r
                 THEN [bf[r] EXCEPT !.pc = "window", !.data = << >>,
                                    !.processed = @ + Cardinality(Buckets(bf[r].data)),
                                    !.cur = @ + DayMs]
                 ELSE [bf[q] EXCEPT !.alone = @ /\ Args(bf[q]) = Args(bf[r])]]
    /\ UNCHANGED <<redis, isBackfilling, now, col, flush, hist,
                   opsLeft, env, call>>

\* aggregateAndStore for one day, the batch upsert throws.
BackfillStoreFail(r) ==
    /\ bf[r].pc = "store"
    /\ BackfillValues(bf[r].base, bf[r].data) # << >>
    /\ bf' = [bf EXCEPT ![r] = Failed(@)]
    /\ isBackfilling' = SetBackfilling(FALSE)
    /\ UNCHANGED <<redis, db, now, col, flush, hist,
                   opsLeft, env, call, obs>>

\* The loop over the days has ended: status completed, then the finally.
BackfillEnd(r) ==
    /\ bf[r].pc = "window"
    /\ bf[r].cur >= bf[r].end
    /\ bf' = [bf EXCEPT ![r] =
                 [@ EXCEPT !.pc = "done", !.status = "completed",
                           !.delivered =
                               Report([bf[r] EXCEPT !.status = "completed"])]]
    /\ isBackfilling' = SetBackfilling(FALSE)
    /\ obs' = [obs EXCEPT !.undisturbed =
                  IF bf[r].alone THEN @ \cup {Args(bf[r])} ELSE @]
    /\ UNCHANGED <<redis, db, now, col, flush, hist,
                   opsLeft, env, call>>

(***************************************************************************)
(* The system.                                                             *)
(***************************************************************************)
\* The environment of the live path: the markets of one base, one historical
\* candle shape.
LiveEnv ==
    [bases |-> {"BTC"}, markets |-> {"BTC"} \X Quotes,
     volumes |-> {2},
     histPrices |-> [e \in Exchanges |-> {2}],
     ranges |-> {ShortRange}, exchangeLists |-> {{"binance", "upbit"}},
     collectors |-> {1}, prices |-> Prices,
     marketConfig |-> [q \in Quotes |-> MarketExchanges("BTC", q)],
     ops |-> MaxOps, flushForever |-> FALSE,
     history |-> FALSE]

\* The environment of the durable store: one live market, binance candles at
\* the lowest and the highest price, backfills with and without upbit.
StoreEnv ==
    [bases |-> {"BTC"}, markets |-> {"BTC"} \X {"USDT"},
     volumes |-> {2},
     histPrices |-> [e \in Exchanges |->
                        IF e = "binance" THEN {1, MaxPrice} ELSE {2}],
     ranges |-> {ShortRange},
     exchangeLists |-> {{"binance", "upbit"}, {"binance"}},
     collectors |-> {1}, prices |-> Prices,
     marketConfig |-> [q \in Quotes |-> MarketExchanges("BTC", q)],
     ops |-> MaxOps, flushForever |-> FALSE,
     history |-> FALSE]

\* The environment of overlapping collection cycles: one market, the
\* 1-second schedule firing while the previous cycle is still running.
OverlapEnv ==
    [bases |-> {"BTC"}, markets |-> {"BTC"} \X {"USDT"},
     volumes |-> {2},
     histPrices |-> [e \in Exchanges |-> {2}],
     ranges |-> {ShortRange}, exchangeLists |-> {{"binance", "upbit"}},
     collectors |-> {1, 2}, prices |-> Prices,
     marketConfig |-> [q \in Quotes |-> MarketExchanges("BTC", q)],
     ops |-> MaxOps, flushForever |-> FALSE,
     history |-> FALSE]

\* The environment of a market served by two exchanges: both are configured
\* for BTC:USDT, prices at the lowest and the highest value.
CollectEnv ==
    [bases |-> {"BTC"}, markets |-> {"BTC"} \X {"USDT"},
     volumes |-> {2},
     histPrices |-> [e \in Exchanges |-> {2}],
     ranges |-> {ShortRange}, exchangeLists |-> {{"binance", "upbit"}},
     collectors |-> {1}, prices |-> {1, MaxPrice},
     marketConfig |-> [q \in Quotes |-> Exchanges],
     ops |-> MaxOps - 1, flushForever |-> FALSE,
     history |-> FALSE]

\* The environment of the two quote markets of a base: binance history at
\* the lowest price, upbit history at the highest.
QuoteEnv ==
    [bases |-> {"BTC"}, markets |-> {"BTC"} \X Quotes,
     volumes |-> {2},
     histPrices |-> [e \in Exchanges |->
                        IF e = "binance" THEN {1} ELSE {MaxPrice}],
     ranges |-> {ShortRange}, exchangeLists |-> {{"binance", "upbit"}},
     collectors |-> {1}, prices |-> Prices,
     marketConfig |-> [q \in Quotes |-> MarketExchanges("BTC", q)],
     ops |-> MaxOps - 1, flushForever |-> FALSE,
     history |-> FALSE]

\* The environment of a flush cycle over three markets of two bases, every
\* exchange at one price.
FlushEnv ==
    [bases |-> {"BTC"},
     markets |-> {Market("BTC", "USDT"), Market("BTC", "KRW"),
                  Market("ETH", "USDT")},
     volumes |-> {2},
     histPrices |-> [e \in Exchanges |-> {2}],
     ranges |-> {ShortRange}, exchangeLists |-> {{"binance", "upbit"}},
     collectors |-> {1}, prices |-> {1},
     marketConfig |-> [q \in Quotes |-> MarketExchanges("BTC", q)],
     ops |-> MaxOps, flushForever |-> FALSE,
     history |-> FALSE]

\* The environment of the schedule: the flush cron never stops firing, the
\* two markets of BTC at one price, a bounded number of ticks and backfills.
CycleEnv ==
    [bases |-> {"BTC"}, markets |-> {"BTC"} \X Quotes,
     volumes |-> {2},
     histPrices |-> [e \in Exchanges |-> {2}],
     ranges |-> {ShortRange}, exchangeLists |-> {{"binance", "upbit"}},
     collectors |-> {1}, prices |-> {1},
     marketConfig |-> [q \in Quotes |-> MarketExchanges("BTC", q)],
     ops |-> MaxOps - 2, flushForever |-> TRUE,
     history |-> FALSE]

\* The environment of one minute of one market: ticks at the lowest and the
\* highest price, the flush cron firing as often as it likes, and the whole
\* history of the market's ticks and flushes kept.
MinuteEnv ==
    [bases |-> {"BTC"}, markets |-> {"BTC"} \X {"USDT"},
     volumes |-> {2},
     histPrices |-> [e \in Exchanges |-> {2}],
     ranges |-> {ShortRange}, exchangeLists |-> {{"binance", "upbit"}},
     collectors |-> {1}, prices |-> {1, MaxPrice},
     marketConfig |-> [q \in Quotes |-> MarketExchanges("BTC", q)],
     ops |-> MaxOps - 1, flushForever |-> TRUE,
     history |-> TRUE]

\* The environment of a backfill of BTC next to the live candles of BTC and
\* of ETH, with the cycles that the flag suppressed kept.
SuppressEnv ==
    [bases |-> {"BTC"},
     markets |-> {Market("BTC", "USDT"), Market("ETH", "USDT")},
     volumes |-> {2},
     histPrices |-> [e \in Exchanges |-> {2}],
     ranges |-> {ShortRange}, exchangeLists |-> {{"binance", "upbit"}},
     collectors |-> {1}, prices |-> {1},
     marketConfig |-> [q \in Quotes |-> MarketExchanges("BTC", q)],
     ops |-> MaxOps, flushForever |-> FALSE,
     history |-> TRUE]

\* The environment of two bases of which one's name starts with the other's:
\* the live candles of BTC and of BTCB, every exchange at one price.
PrefixEnv ==
    [bases |-> {"BTC"},
     markets |-> {Market("BTC", "USDT"), Market("BTCB", "USDT")},
     volumes |-> {2},
     histPrices |-> [e \in Exchanges |-> {2}],
     ranges |-> {ShortRange}, exchangeLists |-> {{"binance", "upbit"}},
     collectors |-> {1}, prices |-> {1},
     marketConfig |-> [q \in Quotes |-> MarketExchanges("BTC", q)],
     ops |-> MaxOps, flushForever |-> FALSE,
     history |-> FALSE]

\* The environment of the backfill ranges: one live market at one price,
\* backfills within a day, across midnight and over two days.
RangeEnv ==
    [bases |-> {"BTC"}, markets |-> {"BTC"} \X {"USDT"},
     volumes |-> {2},
     histPrices |-> [e \in Exchanges |-> {2}],
     ranges |-> {ShortRange, LongRange, NightRange, TwoDayRange},
     exchangeLists |-> {{"binance", "upbit"}},
     collectors |-> {1}, prices |-> {1},
     marketConfig |-> [q \in Quotes |-> MarketExchanges("BTC", q)],
     ops |-> MaxOps - 2, flushForever |-> FALSE,
     history |-> FALSE]

NoHit == [src |-> "none", old |-> << >>, inc |-> << >>]

(***************************************************************************)
(* Direct calls of the AggregationService.                                 *)
(***************************************************************************)
NoResult == [none |-> TRUE]
NoCall == [fn |-> "none", pc |-> "none", prices |-> << >>,
           priceData |-> << >>, result |-> NoResult]

\* The observations a caller may pass: a price, a base volume, and the
\* quote volume the exchange reports, 0 when it reports none.
Volumes == 0..MaxVolume
Observations ==
    {o \in [price : Prices, volume : Volumes,
            quoteVolume : 0..(MaxPrice * MaxVolume)] :
        o.quoteVolume \in {0, o.price * o.volume}}

ListsOf(S) == UNION {[1..n -> S] : n \in 0..MaxObservations}

Calls ==
    {[fn |-> "calculateMedian", pc |-> "called", prices |-> l,
      priceData |-> << >>, result |-> NoResult] : l \in ListsOf(Prices)}
    \cup
    {[fn |-> f, pc |-> "called", prices |-> << >>,
      priceData |-> l, result |-> NoResult] :
        f \in {"calculateVWAP", "aggregate"}, l \in ListsOf(Observations)}

\* calculateMedian(prices): the sort works on a copy, [...prices].
CalculateMedianCall ==
    /\ call.fn = "calculateMedian"
    /\ call.pc = "called"
    /\ call' = [call EXCEPT !.pc = "returned",
                            !.result = CalculateMedian(call.prices)]
    /\ UNCHANGED <<redis, db, isBackfilling, now, col, flush, bf, hist,
                   opsLeft, env, obs>>

\* calculateVWAP(priceData)
CalculateVWAPCall ==
    /\ call.fn = "calculateVWAP"
    /\ call.pc = "called"
    /\ call' = [call EXCEPT !.pc = "returned",
                            !.result = CalculateVWAP(call.priceData)]
    /\ UNCHANGED <<redis, db, isBackfilling, now, col, flush, bf, hist,
                   opsLeft, env, obs>>

\* aggregate(priceData)
AggregateCall ==
    /\ call.fn = "aggregate"
    /\ call.pc = "called"
    /\ call' = [call EXCEPT !.pc = "returned",
                            !.result = Aggregate(call.priceData)]
    /\ UNCHANGED <<redis, db, isBackfilling, now, col, flush, bf, hist,
                   opsLeft, env, obs>>

InitProgram(e) ==
    /\ env = e
    /\ redis = << >>
    /\ db = << >>
    /\ isBackfilling = FALSE
    /\ now = 0
    /\ col = [c \in Collectors |-> IdleCollector]
    /\ flush = IdleFlush
    /\ bf = [r \in Runs |-> IdleRun]
    /\ hist = << >>
    /\ opsLeft = e.ops
    /\ obs = [failed |-> {}, confirmed |-> {}, midTick |-> NoMidTick,
              applied |-> [m \in Markets |-> << >>],
              clean |-> [m \in Markets |-> TRUE],
              hits |-> {}, lastHit |-> NoHit,
              undisturbed |-> {}, repeated |-> FALSE,
              fetch |-> [c \in Collectors |-> NoFetch],
              created |-> [m \in Markets |-> 0],
              observed |-> [m \in Markets |-> << >>],
              invalid |-> {}, enumValid |-> {},
              ticks |-> [m \in Markets |-> << >>],
              flushes |-> [m \in Markets |-> 0],
              suppressed |-> {}]

InitWith(e) == InitProgram(e) /\ call = NoCall

Init == InitWith(LiveEnv)

InitStore == InitWith(StoreEnv)

Next ==
    \/ \E c \in env.collectors, m \in env.markets :
          CollectMarket(c, m[1], m[2])
    \/ \E c \in Collectors : CollectExists(c)
    \/ \E c \in Collectors : CollectCreate(c)
    \/ \E c \in Collectors : CollectHmget(c)
    \/ \E c \in Collectors : CollectUpdate(c)
    \/ Advance
    \/ FlushStart
    \/ \E key \in flush.keys : FlushRead(key)
    \/ FlushUpsertOk
    \/ FlushUpsertFail
    \/ FlushKeys
    \/ FlushDel
    \/ FlushEnd
    \/ \E r \in Runs, base \in env.bases, range \in env.ranges,
          exchanges \in env.exchangeLists :
          BackfillStart(r, base, range, exchanges)
    \/ \E r \in Runs : BackfillFetch(r)
    \/ \E r \in Runs : BackfillFetchFail(r)
    \/ \E r \in Runs : BackfillStore(r)
    \/ \E r \in Runs : BackfillStoreFail(r)
    \/ \E r \in Runs : BackfillEnd(r)

Spec == Init /\ [][Next]_vars

SpecStore == InitStore /\ [][Next]_vars

InitOverlap == InitWith(OverlapEnv)

InitCollect == InitWith(CollectEnv)

InitQuote == InitWith(QuoteEnv)

\* The AggregationService called directly, on every list of at most
\* MaxObservations observations.
InitAggregate == InitProgram(LiveEnv) /\ call \in Calls

NextAggregate ==
    \/ CalculateMedianCall
    \/ CalculateVWAPCall
    \/ AggregateCall

SpecAggregate == InitAggregate /\ [][NextAggregate]_vars

InitRange == InitWith(RangeEnv)

SpecRange == InitRange /\ [][Next]_vars

InitCycle == InitWith(CycleEnv)

\* The schedule: the flush cron keeps firing and every awaited call of a
\* flush cycle, of a tick and of a backfill run settles; the store does not
\* reject upserts forever.
Fairness ==
    /\ WF_vars(FlushStart)
    /\ WF_vars(\E key \in flush.keys : FlushRead(key))
    /\ WF_vars(FlushUpsertOk \/ FlushUpsertFail)
    /\ SF_vars(FlushUpsertOk)
    /\ WF_vars(FlushKeys \/ FlushDel \/ FlushEnd)
    /\ \A c \in Collectors :
          WF_vars(CollectExists(c) \/ CollectCreate(c)
                    \/ CollectHmget(c) \/ CollectUpdate(c))
    /\ \A r \in Runs :
          WF_vars(BackfillFetch(r) \/ BackfillFetchFail(r)
                    \/ BackfillStore(r) \/ BackfillStoreFail(r)
                    \/ BackfillEnd(r))

SpecCycle == InitCycle /\ [][Next]_vars /\ Fairness

InitFlush == InitWith(FlushEnv)

SpecFlush == InitFlush /\ [][Next]_vars

SpecQuote == InitQuote /\ [][Next]_vars

SpecCollect == InitCollect /\ [][Next]_vars

SpecOverlap == InitOverlap /\ [][Next]_vars

InitSuppress == InitWith(SuppressEnv)

SpecSuppress == InitSuppress /\ [][Next]_vars

InitPrefix == InitWith(PrefixEnv)

SpecPrefix == InitPrefix /\ [][Next]_vars

InitMinute == InitWith(MinuteEnv)

SpecMinute == InitMinute /\ [][Next]_vars

(***************************************************************************)
(* BinanceClient.getHistoricalDataRange called directly.                   *)
(***************************************************************************)
\* The minutes, counted from 0, at which the exchange has a 1-minute candle:
\* every minute up to the last one it has listed.
Listed(last) == {k * MinuteMs : k \in 0..last}

\* The sequence of the members of a set of times, in ascending order.
RECURSIVE Ascending(_)
Ascending(S) ==
    IF S = {} THEN << >>
    ELSE LET least == CHOOSE t \in S : \A u \in S : t <= u
         IN  <<least>> \o Ascending(S \ {least})

FirstN(s, n) == IF Len(s) <= n THEN s ELSE SubSeq(s, 1, n)

\* GET /api/v3/klines with startTime, endTime and limit: the open times of
\* the candles of [startTime, endTime], oldest first, at most limit of them.
Klines(last, startTime, endTime, limit) ==
    FirstN(Ascending({t \in Listed(last) : startTime <= t /\ t <= endTime}),
           limit)

RangeCalls ==
    {[fn |-> "getHistoricalDataRange", pc |-> "loop", prices |-> << >>,
      priceData |-> << >>, result |-> NoResult,
      startTime |-> r[1], endTime |-> r[2], last |-> l,
      currentStart |-> r[1], allData |-> << >>, failed |-> FALSE] :
        r \in {x \in StartTimes \X EndTimes : x[1] < x[2]},
        l \in LastListed}

\* One turn of the while loop: the page request returns its candles.
FetchPage ==
    /\ call.fn = "getHistoricalDataRange"
    /\ call.pc = "loop"
    /\ call.currentStart < call.endTime
    /\ LET currentEnd == Min(call.currentStart + BatchSize * MinuteMs,
                             call.endTime)
           data == Klines(call.last, call.currentStart, currentEnd, BatchSize)
       IN  IF data = << >>
           THEN call' = [call EXCEPT !.pc = "returned",
                                     !.result = call.allData]
           ELSE call' = [call EXCEPT
                            !.allData = @ \o data,
                            !.currentStart = data[Len(data)] + MinuteMs]
    /\ UNCHANGED <<redis, db, isBackfilling, now, col, flush, bf, hist,
                   opsLeft, env, obs>>

\* One turn of the while loop: the page request fails, getHistoricalData
\* catches the error and returns no candle, and the loop breaks.
FetchPageFail ==
    /\ call.fn = "getHistoricalDataRange"
    /\ call.pc = "loop"
    /\ call.currentStart < call.endTime
    /\ call' = [call EXCEPT !.pc = "returned", !.result = call.allData,
                            !.failed = TRUE]
    /\ UNCHANGED <<redis, db, isBackfilling, now, col, flush, bf, hist,
                   opsLeft, env, obs>>

\* The loop condition fails: return allData.
ReturnRange ==
    /\ call.fn = "getHistoricalDataRange"
    /\ call.pc = "loop"
    /\ call.currentStart >= call.endTime
    /\ call' = [call EXCEPT !.pc = "returned", !.result = call.allData]
    /\ UNCHANGED <<redis, db, isBackfilling, now, col, flush, bf, hist,
                   opsLeft, env, obs>>

InitPages == InitProgram(LiveEnv) /\ call \in RangeCalls

NextPages ==
    \/ FetchPage
    \/ FetchPageFail
    \/ ReturnRange

SpecPages == InitPages /\ [][NextPages]_vars

(***************************************************************************)
(* Properties of the flush, the stored rows and the in-flight candle.      *)
(***************************************************************************)

\* C1: when the upsert of a market fails in a flush cycle, that cycle issues
\* no delete for the market's in-flight candle: the keys about to be deleted
\* never include the candle of a market whose upsert failed in this cycle.
C1_FailedUpsertKeepsCandle ==
    flush.pc = "del" => flush.allKeys \cap obs.failed = {}

\* C2: a flush cycle removes the in-flight candle of a market if and only if
\* the upsert of that same market was confirmed in that cycle: the candle of
\* the market just upserted is among the keys to delete, and every
\* aggregated candle among them belongs to a market confirmed in this cycle.
C2_ClearedIffConfirmed ==
    flush.pc = "del" =>
        /\ flush.key \in flush.allKeys
        /\ \A k \in flush.allKeys :
              k.kind = "aggregated" => k \in obs.confirmed

\* The price p is within the low and the high of, or is the close of, the
\* in-flight candle of the market, or within the low and the high of one of
\* the market's stored rows.
Reflected(base, quote, p) ==
    \/ /\ AggKey(base, quote) \in DOMAIN redis
       /\ LET cd == redis[AggKey(base, quote)]
              h == ParseFloat(Field(cd, "h"))
              l == ParseFloat(Field(cd, "l"))
          IN  \/ Field(cd, "c") = NumToString(Num(p))
              \/ ~h.nan /\ ~l.nan /\ l.v <= p /\ p <= h.v
    \/ \E k \in DOMAIN db :
          /\ k.base = base
          /\ k.quote = quote
          /\ db[k].low <= p
          /\ p <= db[k].high

\* C3: a tick applied to a market after the flush has read the market's
\* candle and before the flush has finished with it is not lost: once the
\* flush has let go of the market, the tick's price is reflected in a stored
\* row or in the in-flight candle of the market.
C3_MidFlushTickNotLost ==
    (obs.midTick.set /\ ~FlushHolds(AggKey(obs.midTick.base, obs.midTick.quote)))
        => Reflected(obs.midTick.base, obs.midTick.quote, obs.midTick.price)

\* A backfill of the base is between its start and its completion or failure.
BackfillRunning(base) ==
    \E r \in Runs : bf[r].pc \in {"window", "store"} /\ bf[r].base = base

\* C4: from the start of a backfill of a base until it completes or fails,
\* the live flush issues no upsert for any market of that base.
C4_NoLiveUpsertDuringBackfill ==
    [][(flush.pc = "upsert" /\ flush'.pc # "upsert")
          => ~BackfillRunning(flush.key.base)]_vars

\* The stored row after the write of an incoming row onto an existing one.
Merged(old, inc, new) ==
    /\ new.high = Max(old.high, inc.high)
    /\ new.low = Min(old.low, inc.low)
    /\ new.close = inc.close

\* C5: when an upsert, of the live flush or of the backfill, meets a row that
\* already exists for (time, market), the stored high becomes the larger of
\* the stored and the incoming high, the stored low the smaller of the two
\* lows, and the stored close the incoming close.
C5_ConflictMergesHighLowClose ==
    [][/\ (flush.pc = "upsert" /\ flush'.pc = "keys") =>
            LET k == RowKey(flush.time.v, flush.key.base, flush.key.quote)
            IN  k \in DOMAIN db => Merged(db[k], LiveRow(flush.data), db'[k])
       /\ \A r \in Runs :
            (bf[r].pc = "store" /\ bf'[r].pc = "window") =>
                LET values == BackfillValues(bf[r].base, bf[r].data)
                IN  \A k \in DOMAIN values \cap DOMAIN db :
                        Merged(db[k], values[k], db'[k])]_vars

\* Both writers have met an existing row, and the last incoming row had a
\* low above the stored low and a close other than the stored close.
C5_BothWritersMetExistingRow ==
    /\ obs.hits = {"live", "backfill"}
    /\ obs.lastHit.inc.low > obs.lastHit.old.low
    /\ obs.lastHit.inc.close # obs.lastHit.old.close

\* C6: the open of a stored row never changes once the row exists, whichever
\* writer writes to it afterwards.
C6_OpenNeverChanges ==
    [][\A k \in DOMAIN db :
          k \in DOMAIN db' /\ db'[k].open = db[k].open]_vars

\* A backfill has met a row with an incoming open other than the stored one,
\* and the row still has the open it had.
C6_BackfillMetOtherOpen ==
    /\ obs.lastHit.src = "backfill"
    /\ obs.lastHit.inc.open # obs.lastHit.old.open
    /\ \E k \in DOMAIN db : db[k].open = obs.lastHit.old.open

\* C7: across any writes to a stored row its high never decreases and its
\* low never increases.
C7_HighLowMoveOutward ==
    [][\A k \in DOMAIN db :
          /\ k \in DOMAIN db'
          /\ db'[k].high >= db[k].high
          /\ db'[k].low <= db[k].low]_vars

\* A backfill has met a live row with an incoming low above the stored low,
\* and a row still has that stored low.
C7_BackfillMetHigherLow ==
    /\ obs.lastHit.src = "backfill"
    /\ obs.lastHit.old.volume = 0
    /\ obs.lastHit.inc.low > obs.lastHit.old.low
    /\ \E k \in DOMAIN db : db[k].low = obs.lastHit.old.low

\* C8: a backfill run with the arguments of a run that completed, against
\* the same exchange data and with no other write to the store in between,
\* changes no row and no column.
C8_BackfillIsIdempotent ==
    [][\A r \in Runs :
          (/\ bf[r].pc = "store"
           /\ bf'[r].pc = "window"
           /\ Args(bf[r]) \in obs.undisturbed) => db' = db]_vars

\* A run has stored its rows a second time, onto rows of the same arguments.
C8_SecondRunStored ==
    obs.repeated /\ db # << >>

\* C9: after the flush of a market has succeeded the market has no in-flight
\* candle, and the first tick applied to the market after that creates a
\* candle whose open, high, low and close are the tick's price and whose
\* bucket start time is the time of that tick.
C9_FlushedMarketStartsNewCandle ==
    [][/\ (flush.pc = "del" /\ flush'.pc = "loop")
            => flush.key \notin DOMAIN redis'
       /\ \A c \in Collectors :
            LET key == AggKey(col[c].base, col[c].quote)
                p == NumToString(Num(col[c].price))
            IN  (/\ col[c].pc \in {"create", "update"}
                 /\ col'[c].pc = "idle"
                 /\ key \notin DOMAIN redis)
                    => /\ key \in DOMAIN redis'
                       /\ Field(redis'[key], "o") = p
                       /\ Field(redis'[key], "h") = p
                       /\ Field(redis'[key], "l") = p
                       /\ Field(redis'[key], "c") = p
                       /\ Field(redis'[key], "t") = NumToString(Num(now))]_vars

RECURSIVE SeqMax(_)
SeqMax(s) == IF Len(s) = 1 THEN s[1] ELSE Max(s[1], SeqMax(Tail(s)))

RECURSIVE SeqMin(_)
SeqMin(s) == IF Len(s) = 1 THEN s[1] ELSE Min(s[1], SeqMin(Tail(s)))

\* C10: after ticks with prices p_1 .. p_i applied to a market one after the
\* other, with no flush of the market in between, the in-flight candle of the
\* market has open p_1, high max(p_1 .. p_i), low min(p_1 .. p_i) and
\* close p_i.
C10_RunningHighLowClose ==
    \A m \in Markets :
        (obs.clean[m] /\ obs.applied[m] # << >>) =>
            /\ AggKey(m[1], m[2]) \in DOMAIN redis
            /\ LET cd == redis[AggKey(m[1], m[2])]
                   ps == obs.applied[m]
               IN  /\ Field(cd, "o") = NumToString(Num(ps[1]))
                   /\ Field(cd, "h") = NumToString(Num(SeqMax(ps)))
                   /\ Field(cd, "l") = NumToString(Num(SeqMin(ps)))
                   /\ Field(cd, "c") = NumToString(Num(ps[Len(ps)]))

\* Three ticks in a row whose last price is neither the high nor the low.
C10_ThreeTicksMiddleLast ==
    \E m \in Markets :
        /\ obs.clean[m]
        /\ Len(obs.applied[m]) = 3
        /\ obs.applied[m][3] < SeqMax(obs.applied[m])
        /\ obs.applied[m][3] > SeqMin(obs.applied[m])

(***************************************************************************)
(* Properties of the ticks and of the flush cycle.                         *)
(***************************************************************************)

\* C11: from the tick that creates the in-flight candle of a market until
\* the flush that clears it, every later tick leaves the open and the bucket
\* start time of the candle unchanged: a tick write onto a candle that has an
\* open leaves the fields o and t as they were.
C11_LaterTicksKeepOpenAndTime ==
    [][\A c \in Collectors :
          LET key == AggKey(col[c].base, col[c].quote)
          IN  (/\ col[c].pc \in {"create", "update"}
               /\ col'[c].pc = "idle"
               /\ key \in DOMAIN redis
               /\ ~Falsy(Field(redis[key], "o")))
                  => /\ Field(redis'[key], "o") = Field(redis[key], "o")
                     /\ Field(redis'[key], "t") = Field(redis[key], "t")]_vars

\* C12: the row a flush writes for a market has the time of the start of the
\* minute in which the in-flight candle was created, whatever the minute in
\* which the flush runs: the bucket time the flush derives from a snapshot is
\* the minute of the creating tick, and the upsert writes the row of that
\* time and of that market and no other row.
C12_RowTimeIsCreationMinute ==
    [][/\ (flush.pc = "loop" /\ flush'.pc = "upsert") =>
            /\ ~flush'.time.nan
            /\ flush'.time.v =
                  TruncMinute(obs.created[Market(flush'.key.base, flush'.key.quote)])
       /\ (flush.pc = "upsert" /\ flush'.pc = "keys") =>
            LET k == RowKey(flush.time.v, flush.key.base, flush.key.quote)
            IN  /\ k \in DOMAIN db'
                /\ \A x \in DOMAIN db' \ {k} : x \in DOMAIN db /\ db'[x] = db[x]]_vars

\* A flush that runs in a later minute has written the row of the minute in
\* which the candle was created.
C12_FlushedInLaterMinute ==
    /\ flush.pc = "keys"
    /\ TruncMinute(now) > flush.time.v
    /\ RowKey(flush.time.v, flush.key.base, flush.key.quote) \in DOMAIN db

\* The observations of a tick as the aggregator takes them.
PriceData(returned) ==
    [i \in 1..Len(returned) |->
        [price |-> returned[i].price, volume |-> returned[i].volume]]

\* C13: when every exchange configured for a market returns no price in a
\* tick, the tick is skipped: it does not go on to the aggregation and to the
\* write of the aggregated candle, the aggregated candles stay as they are,
\* and the collector is free for the next tick.
C13_TickWithNoPriceIsSkipped ==
    [][\A c \in Collectors :
          (/\ obs'.fetch[c].set
           /\ obs'.fetch[c] # obs.fetch[c]
           /\ obs'.fetch[c].returned = << >>)
              => /\ col'[c].pc = "idle"
                 /\ \A k \in KeysAggregated(redis) \cup KeysAggregated(redis') :
                       k \in DOMAIN redis /\ k \in DOMAIN redis' /\ redis'[k] = redis[k]]_vars

\* A tick in which both exchanges of the market returned no price has been
\* skipped while the market has a candle.
C13_BothExchangesUnavailable ==
    \E c \in Collectors :
        /\ obs.fetch[c].set
        /\ obs.fetch[c].returned = << >>
        /\ Cardinality(env.marketConfig["USDT"]) = 2
        /\ col[c].pc = "idle"
        /\ AggKey("BTC", "USDT") \in DOMAIN redis

C15_SideChannelFailureKeepsObservation ==
    \A c \in Collectors :
        (obs.fetch[c].set /\ obs.fetch[c].returned # << >>)
            => /\ col[c].pc # "idle"
               /\ col[c].sources = Len(obs.fetch[c].returned)

\* The exchange data of a backfill day, restricted to the exchanges that
\* serve the quote currency.
ServingData(data, base, quote) ==
    [e \in DOMAIN data \cap MarketExchanges(base, quote) |-> data[e]]

\* C16: every in-flight candle and every stored row of market (base, quote)
\* is computed only from observations of exchanges that serve that quote
\* currency.  A tick writes the aggregate of observations of the exchanges
\* of its own market to the candle of that market and to no other candle; a
\* flush writes the row of the market whose candle it read; a backfill leaves
\* the rows of each quote currency as they would be had only the exchanges
\* serving that currency returned candles.
C16_NoCrossQuoteMixing ==
    [][/\ \A c \in Collectors :
            LET f == obs.fetch[c]
                key == AggKey(col[c].base, col[c].quote)
            IN  (col[c].pc \in {"create", "update"} /\ col'[c].pc = "idle") =>
                    /\ \A i \in 1..Len(f.returned) :
                          f.returned[i].exchange
                              \in MarketExchanges(col[c].base, col[c].quote)
                    /\ Field(redis'[key], "c") =
                          NumToString(Num(Whole(Aggregate(PriceData(f.returned)).price)))
                    /\ \A k \in (DOMAIN redis \cup DOMAIN redis') \ {key} :
                          k \in DOMAIN redis /\ k \in DOMAIN redis'
                          /\ redis'[k] = redis[k]
       /\ (flush.pc = "loop" /\ flush'.pc = "upsert") =>
            flush'.data = redis[flush'.key]
       /\ (flush.pc = "upsert" /\ flush'.pc = "keys") =>
            \A k \in DOMAIN db' :
                (k \notin DOMAIN db \/ db'[k] # db[k]) =>
                    k.base = flush.key.base /\ k.quote = flush.key.quote
       /\ \A r \in Runs :
            (bf[r].pc = "store" /\ bf'[r].pc = "window") =>
              \A q \in Quotes :
                LET own == BackfillUpsert(db,
                               BackfillValues(bf[r].base,
                                   ServingData(bf[r].data, bf[r].base, q)))
                IN  \A k \in DOMAIN db' \cup DOMAIN own :
                        k.quote = q =>
                            /\ k \in DOMAIN db'
                            /\ k \in DOMAIN own
                            /\ db'[k] = own[k]]_vars

\* Both markets of the base have a candle, with different closes, and both
\* have a stored row of the same minute, with different closes.
C16_BothMarketsLiveAndStored ==
    /\ AggKey("BTC", "USDT") \in DOMAIN redis
    /\ AggKey("BTC", "KRW") \in DOMAIN redis
    /\ Field(redis[AggKey("BTC", "USDT")], "c") # Field(redis[AggKey("BTC", "KRW")], "c")
    /\ \E t \in {0, MinuteMs} :
          /\ RowKey(t, "BTC", "USDT") \in DOMAIN db
          /\ RowKey(t, "BTC", "KRW") \in DOMAIN db
          /\ db[RowKey(t, "BTC", "USDT")].close # db[RowKey(t, "BTC", "KRW")].close

\* C17: a snapshot that lacks its open or its close is skipped by the flush:
\* the step that reads it makes no upsert, deletes nothing from the fast
\* tier, counts the market as skipped and goes on with the cycle.
C17_IncompleteSnapshotIsSkipped ==
    [][\A key \in flush.keys \ flush'.keys :
          LET data == HGetAll(redis, key)
          IN  (flush.pc = "loop"
               /\ (Falsy(Field(data, "o")) \/ Falsy(Field(data, "c")))) =>
                  /\ db' = db
                  /\ redis' = redis
                  /\ flush'.pc = "loop"
                  /\ flush'.skippedCount = flush.skippedCount + 1
                  /\ flush'.flushedCount = flush.flushedCount]_vars

\* A cycle has skipped a candle that holds a close and no open, and the
\* candle is still in the fast tier.
C17_PartialCandleSkipped ==
    \E key \in obs.invalid :
        /\ key \in DOMAIN redis
        /\ Falsy(Field(redis[key], "o"))
        /\ ~Falsy(Field(redis[key], "c"))
        /\ flush.skippedCount >= 1
        /\ obs.failed = {}

\* C18: in a flush cycle over several markets, a failed upsert or an invalid
\* snapshot of one market does not stop the cycle: at the end of the loop,
\* every other market whose candle was valid when the cycle enumerated the
\* candles has had its upsert attempted (confirmed or failed) in this cycle.
C18_OtherMarketsStillAttempted ==
    (flush.pc = "loop" /\ flush.keys = {}) =>
        \A k \in obs.enumValid :
            ((obs.failed \cup obs.invalid) \ {k} # {}) =>
                k \in obs.failed \cup obs.confirmed

AggregatedKeys == {AggKey(m[1], m[2]) : m \in Markets}

C20_FlagEventuallyCleared ==
    /\ [][\A r \in Runs :
            (bf[r].pc \in {"window", "store"} /\ bf'[r].pc = "done") =>
                ~isBackfilling']_vars
    /\ []((\A r \in Runs : bf[r].pc \in {"idle", "done"}) => ~isBackfilling)
    /\ \A r \in Runs :
          (bf[r].pc \in {"window", "store"}) ~> (bf[r].pc = "done")
    /\ isBackfilling ~> ~isBackfilling

\* One run has completed, another has failed, and the flag is lowered.
C20_CompletedAndFailedRuns ==
    /\ \E r \in Runs : bf[r].pc = "done" /\ bf[r].status = "completed"
    /\ \E r \in Runs : bf[r].pc = "done" /\ bf[r].status = "failed"
    /\ ~isBackfilling

(***************************************************************************)
(* Properties of the backfill run and of the aggregation.                  *)
(***************************************************************************)

\* C21: when a backfill run has failed, what its caller has received
\* carries a report with status failed and the number of candles processed
\* in the windows completed before the failure.
C21_FailureCarriesReport ==
    \A r \in Runs :
        (bf[r].pc = "done" /\ bf[r].status = "failed") =>
            /\ bf[r].delivered.status = "failed"
            /\ bf[r].delivered.processed = bf[r].processed

\* The minutes of [start, end): the minute boundaries at or after start
\* and before end.
MinutesOf(start, end) ==
    {k * MinuteMs : k \in ((start + MinuteMs - 1) \div MinuteMs)..((end - 1) \div MinuteMs)}

\* C22: when a backfill run of [start, end) has completed, every minute of
\* [start, end) lies inside one of the day windows the run has passed to
\* the exchange fetch.
C22_WindowsCoverRange ==
    \A r \in Runs :
        (bf[r].pc = "done" /\ bf[r].status = "completed") =>
            \A m \in MinutesOf(bf[r].start, bf[r].end) :
                \E i \in 1..Len(bf[r].windows) :
                    bf[r].windows[i].from <= m /\ m <= bf[r].windows[i].to

\* C23: no day window passed to the exchange fetch begins before start or
\* ends after end, and successive windows of a run do not overlap.
C23_WindowsInsideRange ==
    \A r \in Runs :
        /\ \A i \in 1..Len(bf[r].windows) :
              /\ bf[r].start <= bf[r].windows[i].from
              /\ bf[r].windows[i].to <= bf[r].end
        /\ \A i \in 1..(Len(bf[r].windows) - 1) :
              bf[r].windows[i].to < bf[r].windows[i + 1].from

\* C24: the expected total a backfill reports is floor((end - start) / one
\* minute): the largest number of whole minutes that fit in end - start.
C24_TotalIsWholeMinutes ==
    \A r \in Runs :
        bf[r].delivered.kind = "report" =>
            /\ bf[r].delivered.total * MinuteMs <= bf[r].end - bf[r].start
            /\ bf[r].end - bf[r].start < (bf[r].delivered.total + 1) * MinuteMs

\* A run over a minute and a half has reported a total of one.
C24_ReportedHalfMinuteDropped ==
    \E r \in Runs :
        /\ bf[r].delivered.kind = "report"
        /\ bf[r].end - bf[r].start = MinuteMs + HalfMinuteMs
        /\ bf[r].delivered.total = 1

\* C25: aggregate called with an empty list of observations throws and
\* returns no aggregated price; calculateMedian called with an empty list
\* throws likewise.
C25_EmptyInputThrows ==
    (call.pc = "returned" /\ call.fn \in {"aggregate", "calculateMedian"}
     /\ call.priceData = << >> /\ call.prices = << >>) =>
        /\ Threw(call.result)
        /\ "price" \notin DOMAIN call.result
        /\ "num" \notin DOMAIN call.result

\* aggregate has been called with no observation and has thrown.
C25_AggregateOfNothingThrew ==
    /\ call.fn = "aggregate"
    /\ call.pc = "returned"
    /\ call.priceData = << >>
    /\ Threw(call.result)

\* C26: for every non-empty input, the result of aggregate has algorithm
\* vwap if and only if at least one observation has a volume above 0, and
\* algorithm median otherwise.
C26_AlgorithmFollowsVolume ==
    (call.pc = "returned" /\ call.fn = "aggregate" /\ call.priceData # << >>) =>
        LET positive == \E i \in 1..Len(call.priceData) :
                            call.priceData[i].volume > 0
        IN  /\ ~Threw(call.result)
            /\ (call.result.algorithm = "vwap") <=> positive
            /\ (call.result.algorithm = "median") <=> ~positive

\* aggregate has returned for observations of which one has a volume and
\* another has none.
C26_MixedVolumesGaveVwap ==
    /\ call.fn = "aggregate"
    /\ call.pc = "returned"
    /\ \E i, j \in 1..Len(call.priceData) :
          call.priceData[i].volume > 0 /\ call.priceData[j].volume = 0
    /\ call.result.algorithm = "vwap"

\* The weight of an observation: its quote volume when the exchange reports
\* a positive one, its volume otherwise.
Weight(o) == IF o.quoteVolume > 0 THEN o.quoteVolume ELSE o.volume

\* C27: when at least one observation has a positive volume, aggregate
\* returns price = sum(price_i * weight_i) / sum(weight_i), the weight of an
\* observation being its quote volume if available and positive and its
\* volume otherwise.
C27_VwapWeighsByQuoteVolume ==
    (call.pc = "returned" /\ call.fn = "aggregate"
     /\ \E i \in 1..Len(call.priceData) : call.priceData[i].volume > 0) =>
        LET n == Len(call.priceData)
            weights == SumSeq([i \in 1..n |-> Weight(call.priceData[i])])
            weighted == SumSeq([i \in 1..n |->
                            call.priceData[i].price * Weight(call.priceData[i])])
        IN  call.result.price.num * weights = call.result.price.den * weighted

\* The k-th smallest of a list of prices.
Kth(prices, k) ==
    CHOOSE m \in {prices[i] : i \in 1..Len(prices)} :
        /\ Cardinality({i \in 1..Len(prices) : prices[i] < m}) < k
        /\ Cardinality({i \in 1..Len(prices) : prices[i] <= m}) >= k

\* C28: calculateMedian returns, for a non-empty list of prices in any
\* order, the middle value of the sorted list when the count is odd and the
\* mean of the two middle sorted values when it is even, and leaves the
\* caller's list as it was.
C28_MedianOfAnyOrder ==
    [][(call.fn = "calculateMedian" /\ call.pc = "called"
        /\ call'.pc = "returned" /\ call.prices # << >>) =>
          LET n == Len(call.prices)
              k == n \div 2
              r == call'.result
          IN  /\ ~Threw(r)
              /\ call'.prices = call.prices
              /\ IF n % 2 = 1
                 THEN r.num = r.den * Kth(call.prices, k + 1)
                 ELSE 2 * r.num =
                          r.den * (Kth(call.prices, k) + Kth(call.prices, k + 1))]_vars

\* calculateMedian has returned a mean that is not a whole number for a list
\* of even length that was not in order.
C28_MeanOfUnsortedPair ==
    /\ call.fn = "calculateMedian"
    /\ call.pc = "returned"
    /\ Len(call.prices) = 2
    /\ call.prices[1] > call.prices[2]
    /\ call.result.den = 2

\* C29: for a non-empty list of observations that all have volume 0,
\* calculateVWAP and aggregate return the median of their prices and throw
\* no error.
C29_NoVolumeGivesMedian ==
    (call.pc = "returned" /\ call.fn \in {"calculateVWAP", "aggregate"}
     /\ call.priceData # << >>
     /\ \A i \in 1..Len(call.priceData) : call.priceData[i].volume = 0) =>
        LET n == Len(call.priceData)
            prices == [i \in 1..n |-> call.priceData[i].price]
            k == n \div 2
            r == IF call.fn = "aggregate" THEN call.result.price ELSE call.result
        IN  /\ ~Threw(call.result)
            /\ ~Threw(r)
            /\ IF n % 2 = 1
               THEN r.num = r.den * Kth(prices, k + 1)
               ELSE 2 * r.num = r.den * (Kth(prices, k) + Kth(prices, k + 1))

\* calculateVWAP has returned for two observations of different prices and
\* no volume.
C29_VwapOfNoVolume ==
    /\ call.fn = "calculateVWAP"
    /\ call.pc = "returned"
    /\ Len(call.priceData) = 2
    /\ call.priceData[1].price # call.priceData[2].price
    /\ \A i \in 1..2 : call.priceData[i].volume = 0
    /\ ~Threw(call.result)

\* C30: ticks of one market are folded into its candle in observation
\* order: under any interleaving of overlapping collection cycles, once all
\* of them have finished, the close of the candle is the price of the latest
\* observation and its high and low include every observation applied.
C30_TicksFoldedInObservationOrder ==
    \A m \in Markets :
        LET key == AggKey(m[1], m[2])
            seen == obs.observed[m]
            done == obs.applied[m]
        IN  (/\ ~\E c \in Collectors : InFlight(col[c], m)
             /\ Len(seen) > 0
             /\ Len(seen) = Len(done)
             /\ key \in DOMAIN redis) =>
                /\ Field(redis[key], "c") = NumToString(Num(seen[Len(seen)]))
                /\ ~ParseFloat(Field(redis[key], "h")).nan
                /\ ~ParseFloat(Field(redis[key], "l")).nan
                /\ ParseFloat(Field(redis[key], "h")).v >= SeqMax(done)
                /\ ParseFloat(Field(redis[key], "l")).v <= SeqMin(done)

(***************************************************************************)
(* Properties of the stored minute, the pagination of the history, the     *)
(* suppression flag and the bounds of the results.                         *)
(***************************************************************************)

\* The market has been flushed at least twice within minute 0, nothing of it
\* is left in the fast tier or on its way there, and no backfill has run.
FlushedWithinMinute(m) ==
    /\ now < MinuteMs
    /\ obs.flushes[m] >= 2
    /\ AggKey(m[1], m[2]) \notin DOMAIN redis
    /\ ~FlushHolds(AggKey(m[1], m[2]))
    /\ ~\E c \in Collectors : InFlight(col[c], m)
    /\ \A r \in Runs : bf[r].pc = "idle"

\* The row of minute 0 of market m is the candle of the prices ps.
RowOfTicks(m, ps) ==
    LET k == RowKey(0, m[1], m[2])
    IN  /\ k \in DOMAIN db
        /\ db[k].open = ps[1]
        /\ db[k].high = SeqMax(ps)
        /\ db[k].low = SeqMin(ps)
        /\ db[k].close = ps[Len(ps)]

\* C31: when all ticks of a market fall in one minute and the candle is
\* flushed successfully several times within that minute, then after the last
\* flush the single stored row of the minute has the open of the first tick,
\* the high and the low of all ticks and the close of the last tick.
C31_MinuteRowFoldsAllTicks ==
    \A m \in Markets :
        FlushedWithinMinute(m) => RowOfTicks(m, obs.ticks[m])

\* The candles of [startTime, endTime] that the exchange has, oldest first.
CandlesOfRange(last, startTime, endTime) ==
    Ascending({t \in Listed(last) : startTime <= t /\ t <= endTime})

\* C32: when every page request returns the contiguous candles of the
\* sub-range it asks for, up to the page limit, getHistoricalDataRange returns
\* the candles of [startTime, endTime] ordered by time, no minute twice and no
\* minute missing.
C32_RangeReturnsEveryCandleOnce ==
    (call.fn = "getHistoricalDataRange" /\ call.pc = "returned"
        /\ ~call.failed)
        => call.result = CandlesOfRange(call.last, call.startTime, call.endTime)

\* The field f of hash h is set and holds a number.
Numeric(h, f) == ~Falsy(Field(h, f)) /\ ~ParseFloat(Field(h, f)).nan

\* C33: whatever the interleaving of the steps of a tick update (exists,
\* read of high and low, write) with the delete of the flush, every
\* aggregated candle in the fast tier has open, high, low, close and bucket
\* start time set to numbers: none holds high, low and close only.
C33_CandleRecordsAreComplete ==
    \A key \in KeysAggregated(redis) :
        \A f \in {"o", "h", "l", "c", "t"} : Numeric(redis[key], f)

\* C34: the suppression flag is set whenever at least one backfill run is in
\* progress: when two runs overlap, the end of the first does not lower the
\* flag while the second is still running.
C34_FlagSetWhileAnyRunInProgress ==
    (\E r \in Runs : bf[r].pc \in {"window", "store"}) => isBackfilling

\* C35: a flush cycle that starts while the suppression flag is set changes
\* nothing: the step of the schedule, the one step from an idle flush that
\* belongs to no tick, to no backfill run and to no move of the clock, reads
\* no candle, upserts no row and deletes no key of any market of any base.
C35_SuppressedCycleChangesNothing ==
    [][(flush.pc = "idle" /\ isBackfilling
          /\ col' = col /\ bf' = bf /\ now' = now)
          => (flush' = flush /\ redis' = redis /\ db' = db)]_vars

\* A cycle started while BTC was being backfilled and candles of BTC and of
\* ETH were in the fast tier; both are still there and no row is stored.
C35_CycleSuppressedWithEthCandle ==
    /\ BackfillRunning("BTC")
    /\ ~BackfillRunning("ETH")
    /\ {AggKey("BTC", "USDT"), AggKey("ETH", "USDT")} \subseteq obs.suppressed
    /\ obs.suppressed \subseteq DOMAIN redis
    /\ flush.pc = "idle"
    /\ db = << >>

\* C36: the clear of a successful flush of a market of base A removes
\* records of A only: every fast-tier record of another base, also of one
\* whose name starts with A, is the same after the delete as before.
C36_ClearLeavesOtherBasesAlone ==
    [][(flush.pc = "del" /\ flush'.pc # "del")
          => \A k \in DOMAIN redis :
                k.base # flush.key.base
                    => (k \in DOMAIN redis' /\ redis'[k] = redis[k])]_vars

\* low <= open <= high and low <= close <= high.
Ordered(row) ==
    /\ row.low <= row.open
    /\ row.open <= row.high
    /\ row.low <= row.close
    /\ row.close <= row.high

\* The rows that the upserts in progress are about to write are ordered.
IncomingOrdered ==
    /\ flush.pc = "upsert" => Ordered(LiveRow(flush.data))
    /\ \A r \in Runs :
          bf[r].pc = "store" =>
              LET values == BackfillValues(bf[r].base, bf[r].data)
              IN  \A k \in DOMAIN values : Ordered(values[k])

\* C37: every stored row has low <= open <= high and low <= close <= high
\* after any sequence and any order of upserts of the flush and of the
\* backfill whose incoming rows have them: an upsert of ordered rows onto
\* ordered rows leaves every row ordered.
C37_StoredRowsStayOrdered ==
    [][((\A k \in DOMAIN db : Ordered(db[k])) /\ IncomingOrdered)
          => \A k \in DOMAIN db' : Ordered(db'[k])]_vars

\* A flush has met a row with an incoming low above the stored open, and
\* the row, with its open kept and the incoming close, is ordered.
C37_LiveRowAboveStoredOpen ==
    /\ obs.lastHit.src = "live"
    /\ obs.lastHit.inc.low > obs.lastHit.old.open
    /\ \E k \in DOMAIN db :
          /\ db[k].open = obs.lastHit.old.open
          /\ db[k].close = obs.lastHit.inc.close
          /\ db[k].high = obs.lastHit.inc.high
          /\ Ordered(db[k])

\* C38: when a backfill completes, the processed-candle count it reports is
\* at most the expected total it reports, whatever start < end and whatever
\* exchanges were requested.
C38_ProcessedAtMostTotal ==
    \A r \in Runs :
        (bf[r].delivered.kind = "report"
            /\ bf[r].delivered.status = "completed")
            => bf[r].delivered.processed <= bf[r].delivered.total

\* C39: for every non-empty list of observations with volumes of 0 or more,
\* the price that aggregate returns lies between the smallest and the
\* largest price of the list, both included.
C39_AggregateWithinInputPrices ==
    (call.fn = "aggregate" /\ call.pc = "returned" /\ call.priceData # << >>) =>
        LET prices == [i \in 1..Len(call.priceData) |-> call.priceData[i].price]
            r == call.result.price
        IN  /\ ~Threw(call.result)
            /\ SeqMin(prices) * r.den <= r.num
            /\ r.num <= SeqMax(prices) * r.den
====
